---- MODULE Spec2Model ----
(***************************************************************************)
(* Model of lv_draw_img.c: the pixel accessors of an image buffer          *)
(* (lv_img_buf_get/set_px_color, lv_img_buf_get/set_px_alpha,              *)
(* lv_img_buf_set_palette) and the image drawing routines (lv_draw_img,    *)
(* lv_img_draw_core, lv_draw_map).                                         *)
(*                                                                         *)
(* Two specifications share the module:                                    *)
(*   SpecCodec  an image descriptor drawn from a bounded set, one setter   *)
(*              applied to it, then getters;                               *)
(*   Spec       one lv_draw_img call, stepped through lv_img_draw_core     *)
(*              and lv_draw_map.                                           *)
(***************************************************************************)
EXTENDS Integers, Sequences, FiniteSets, TLC

VARIABLES
    dsc,        \* lv_img_dsc_t: [cf, w, h, data], data a function 0..n-1 -> byte
    pre,        \* dsc.data as it was before the last setter ran
    setop,      \* the setter applied to dsc: its arguments and the bytes it wrote
    getop,      \* the last getter call: its arguments, result and the bytes it read
    ub          \* "none" | "stray_write" | "fault": outcome of an out-of-object write

codecVars == <<dsc, pre, setop, getop, ub>>

VARIABLES
    call,       \* the arguments of the lv_draw_img call and what its collaborators will do
    pc,         \* "call" | "core_loop" | "map_rows" | "done"
    loop,       \* lv_img_draw_core's streaming loop: [line, x, y, row]
    dm,         \* lv_draw_map's locals while it runs its general path
    scratch,    \* lv_draw_map's map2 and mask_buf (and, per slot, whether the
                \* decoded colour was the chroma key; per block, what
                \* lv_draw_mask_apply returned for each of its rows)
    res,        \* what lv_img_draw_core returned: "none" | "OK" | "INV"
    opened,     \* cache entries lv_img_cache_open returned
    closes,     \* calls of lv_img_decoder_close
    reads,      \* calls of lv_img_decoder_read_line: [x, y, w, ok]
    maps,       \* calls of lv_draw_map: [area, opa]
    blends,     \* calls of lv_blend_map
    fallbacks   \* lv_draw_rect + lv_draw_label pairs: the label texts

drawVars == <<call, pc, loop, dm, scratch, res, opened, closes, reads, maps, blends,
              fallbacks>>

vars == <<dsc, pre, setop, getop, ub, call, pc, loop, dm, scratch, res, opened, closes,
          reads, maps, blends, fallbacks>>

(***************************************************************************)
(* Bounds of the model                                                     *)
(***************************************************************************)
MaxImgW == 3
MaxImgH == 2
\* Width of the display and capacity of lv_draw_map's scratch buffers (lv_conf.h)
LV_HOR_RES_MAX == 4
\* Rows of the display buffer
MaxRows == 4
\* Origin of the display buffer's area (vdb->area.x1, vdb->area.y1)
DispX1 == 1
DispY1 == 1

(***************************************************************************)
(* Configuration (lv_conf.h) and constants                                 *)
(***************************************************************************)
\* The compiled resources of the repository are 16 bit deep.
LV_COLOR_DEPTH == 16
LV_COLOR_SIZE == LV_COLOR_DEPTH
\* sizeof(lv_color_t)
SizeofColor == LV_COLOR_DEPTH \div 8
\* one colour plus "the possible alpha byte"
LV_IMG_PX_SIZE_ALPHA_BYTE == (LV_COLOR_DEPTH \div 8) + 1
LV_OPA_TRANSP == 0
LV_OPA_COVER == 255
\* lv_color.h: opacities below LV_OPA_MIN are not drawn, those above LV_OPA_MAX
\* are drawn as LV_OPA_COVER
LV_OPA_MIN == 16
LV_OPA_MAX == 251
\* LV_COLOR_TRANSP, the chroma key: pure green, 0x07E0 in 16 bits
LV_COLOR_TRANSP == 2016
LV_COLOR_BLACK == 0

TrueColorFormats == {"TRUE_COLOR", "TRUE_COLOR_CHROMA_KEYED", "TRUE_COLOR_ALPHA"}
IndexedFormats == {"INDEXED_1BIT", "INDEXED_2BIT", "INDEXED_4BIT", "INDEXED_8BIT"}
AlphaFormats == {"ALPHA_1BIT", "ALPHA_2BIT", "ALPHA_4BIT", "ALPHA_8BIT"}
Formats == TrueColorFormats \cup IndexedFormats \cup AlphaFormats

(***************************************************************************)
(* C arithmetic on bytes and coordinates                                   *)
(***************************************************************************)
\* v >> n (arithmetic for a negative lv_coord_t)
Shr(v, n) == v \div (2 ^ n)
\* v & (2^n - 1) (two's complement for a negative lv_coord_t)
LowBits(v, n) == v % (2 ^ n)
\* (b & (m << sh)) >> sh, m a mask of `width` ones
GetField(b, width, sh) == (b \div (2 ^ sh)) % (2 ^ width)
\* a | b on non-negative integers
RECURSIVE BitOr(_, _)
BitOr(a, b) ==
    IF a = 0 THEN b
    ELSE IF b = 0 THEN a
    ELSE (IF (a % 2) + (b % 2) > 0 THEN 1 ELSE 0) + (2 * BitOr(a \div 2, b \div 2))

\* Mutant of SetField: the line that clears the field is missing
SetField_NoClear(b, width, sh, v) == BitOr(b, (v % (2 ^ width)) * (2 ^ sh))

\* (b & ~(m << sh)) | ((v & m) << sh)
SetField(b, width, sh, v) ==
    b - (GetField(b, width, sh) * (2 ^ sh)) + ((v % (2 ^ width)) * (2 ^ sh))

\* buf[a]; every use is followed by a guarded write or is a clamped read
Rd(data, a) == IF a \in DOMAIN data THEN data[a] ELSE 0
\* buf[a] = v, applied when a is a byte of the buffer
Wr(data, a, v) == IF a \in DOMAIN data THEN [data EXCEPT ![a] = v] ELSE data

\* The address buf_u8 + px, px a uint32_t. A negative mathematical value of px
\* wraps to 2^32 + px: where pointers are 32 bits wide (wrap) the sum wraps
\* back to off + px, elsewhere it lies far beyond the buffer (-1 stands
\* for that address).
EffAddr(off, px, wrap) == IF px < 0 /\ ~wrap THEN -1 ELSE off + px

(***************************************************************************)
(* lv_img_color_format_get_px_size: pixel size in bits                     *)
(***************************************************************************)
lv_img_color_format_get_px_size(cf) ==
    CASE cf \in {"TRUE_COLOR", "TRUE_COLOR_CHROMA_KEYED"} -> LV_COLOR_SIZE
      [] cf = "TRUE_COLOR_ALPHA" -> LV_IMG_PX_SIZE_ALPHA_BYTE * 8
      [] cf \in {"INDEXED_1BIT", "ALPHA_1BIT"} -> 1
      [] cf \in {"INDEXED_2BIT", "ALPHA_2BIT"} -> 2
      [] cf \in {"INDEXED_4BIT", "ALPHA_4BIT"} -> 4
      [] cf \in {"INDEXED_8BIT", "ALPHA_8BIT"} -> 8
      [] OTHER -> 0

lv_img_color_format_is_chroma_keyed(cf) ==
    cf \in {"TRUE_COLOR_CHROMA_KEYED", "RAW_CHROMA_KEYED"} \cup IndexedFormats

lv_img_color_format_has_alpha(cf) ==
    cf \in {"TRUE_COLOR_ALPHA", "RAW_ALPHA"} \cup AlphaFormats

\* Bytes of the palette the indexed accessors skip: sizeof(lv_color32_t) * 2^bpp
PaletteBytes(cf) ==
    CASE cf = "INDEXED_1BIT" -> 4 * 2
      [] cf = "INDEXED_2BIT" -> 4 * 4
      [] cf = "INDEXED_4BIT" -> 4 * 16
      [] cf = "INDEXED_8BIT" -> 4 * 256
      [] OTHER -> 0

\* log2 of the pixels per byte of a packed format
PackShift(bpp) == CASE bpp = 1 -> 3 [] bpp = 2 -> 2 [] bpp = 4 -> 1 [] OTHER -> 0

\* Bytes of one row: ((w + 7) >> 3), ((w + 3) >> 2), ((w + 1) >> 1), w
RowStride(w, bpp) == Shr(w + (2 ^ PackShift(bpp)) - 1, PackShift(bpp))

\* The byte and the shift of pixel (x, y) of a packed row:
\*   bit = (x & (ppb - 1)) * bpp;  x = x >> log2(ppb);
\*   px  = stride * y + x;         shift = (8 - bpp) - bit
PackedPx(w, x, y, bpp) ==
    [px |-> (RowStride(w, bpp) * y) + Shr(x, PackShift(bpp)),
     sh |-> (8 - bpp) - (LowBits(x, PackShift(bpp)) * bpp)]

\* px = dsc->header.w * y * px_size + x * px_size
TruePx(w, x, y, px_size) == (w * y * px_size) + (x * px_size)

\* Size in bytes of the buffer of an image
BufSize(cf, w, h) ==
    IF cf \in TrueColorFormats
    THEN w * h * (lv_img_color_format_get_px_size(cf) \div 8)
    ELSE PaletteBytes(cf) + (RowStride(w, lv_img_color_format_get_px_size(cf)) * h)

\* Clamping of the getters
ClampCoord(v, size) == IF v >= size THEN size - 1 ELSE IF v < 0 THEN 0 ELSE v

(***************************************************************************)
(* lv_img_buf_get_px_color                                                 *)
(* Returns [val: the colour (lv_color_t.full), acc: the bytes read].       *)
(* style is the style's image.color, or negative for a NULL style.         *)
(***************************************************************************)
lv_img_buf_get_px_color(d, x0, y0, style) ==
    LET x == ClampCoord(x0, d.w)
        y == ClampCoord(y0, d.h)
        cf == d.cf
    IN  CASE cf \in TrueColorFormats ->
               LET px_size == Shr(lv_img_color_format_get_px_size(cf), 3)
                   px == TruePx(d.w, x, y, px_size)
               IN  \* memcpy(&p_color, &buf_u8[px], sizeof(lv_color_t))
                   [val |-> Rd(d.data, px) + (Rd(d.data, px + 1) * 256),
                    acc |-> px .. (px + SizeofColor - 1)]
          [] cf \in IndexedFormats ->
               LET bpp == lv_img_color_format_get_px_size(cf)
                   p == PackedPx(d.w, x, y, bpp)
                   a == PaletteBytes(cf) + p.px
               IN  [val |-> GetField(Rd(d.data, a), bpp, p.sh), acc |-> {a}]
          [] cf \in AlphaFormats ->
               [val |-> IF style >= 0 THEN style ELSE LV_COLOR_BLACK, acc |-> {}]
          [] OTHER -> [val |-> LV_COLOR_BLACK, acc |-> {}]

(***************************************************************************)
(* lv_img_buf_get_px_alpha                                                 *)
(***************************************************************************)
\* const uint8_t opa_table[4]
OpaTable2 == <<0, 85, 170, 255>>
\* const uint8_t opa_table[16]
OpaTable4 == <<0, 17, 34, 51, 68, 85, 102, 119, 136, 153, 170, 187, 204, 221, 238, 255>>

\* ALPHA_1BIT: return px_opa ? LV_OPA_TRANSP : LV_OPA_COVER
Alpha1BitToOpa(px_opa) == IF px_opa # 0 THEN LV_OPA_TRANSP ELSE LV_OPA_COVER

lv_img_buf_get_px_alpha(d, x0, y0) ==
    LET x == ClampCoord(x0, d.w)
        y == ClampCoord(y0, d.h)
        cf == d.cf
    IN  CASE cf = "TRUE_COLOR_ALPHA" ->
               LET px == TruePx(d.w, x, y, LV_IMG_PX_SIZE_ALPHA_BYTE)
                   a == px + LV_IMG_PX_SIZE_ALPHA_BYTE - 1
               IN  [val |-> Rd(d.data, a), acc |-> {a}]
          [] cf = "ALPHA_1BIT" ->
               LET p == PackedPx(d.w, x, y, 1)
               IN  [val |-> Alpha1BitToOpa(GetField(Rd(d.data, p.px), 1, p.sh)),
                    acc |-> {p.px}]
          [] cf = "ALPHA_2BIT" ->
               LET p == PackedPx(d.w, x, y, 2)
               IN  [val |-> OpaTable2[GetField(Rd(d.data, p.px), 2, p.sh) + 1],
                    acc |-> {p.px}]
          [] cf = "ALPHA_4BIT" ->
               LET p == PackedPx(d.w, x, y, 4)
               IN  [val |-> OpaTable4[GetField(Rd(d.data, p.px), 4, p.sh) + 1],
                    acc |-> {p.px}]
          [] cf = "ALPHA_8BIT" ->
               LET px == (d.w * y) + x
               IN  [val |-> Rd(d.data, px), acc |-> {px}]
          [] OTHER -> [val |-> LV_OPA_COVER, acc |-> {}]

(***************************************************************************)
(* lv_img_buf_set_px_color: no clamping; returns [data, acc], acc the      *)
(* addresses written (those outside DOMAIN data are out of the object).    *)
(***************************************************************************)
\* Mutant of TrueColorAlphaCopyLen: the whole pixel is copied
TrueColorAlphaCopyLen_Full(px_size) == px_size

\* Number of bytes the TRUE_COLOR_ALPHA branch copies: px_size - 1,
\* "-1 to not overwrite the alpha value"
TrueColorAlphaCopyLen(px_size) == px_size - 1

\* memcpy(&buf_u8[px], &c, n) of a little-endian 16 bit colour, n <= 3
\* (a third byte would come from behind the colour argument)
MemcpyColor(data, a, c, n) ==
    LET b0 == Wr(data, a, c % 256)
        b1 == IF n >= 2 THEN Wr(b0, a + 1, (c \div 256) % 256) ELSE b0
    IN  IF n >= 3 THEN Wr(b1, a + 2, 0) ELSE b1

lv_img_buf_set_px_color(d, x, y, c, wrap) ==
    LET cf == d.cf
    IN  CASE cf \in {"TRUE_COLOR", "TRUE_COLOR_CHROMA_KEYED"} ->
               LET px_size == Shr(lv_img_color_format_get_px_size(cf), 3)
                   a == EffAddr(0, TruePx(d.w, x, y, px_size), wrap)
               IN  [data |-> MemcpyColor(d.data, a, c, px_size),
                    acc |-> IF a < 0 THEN {a} ELSE a .. (a + px_size - 1)]
          [] cf = "TRUE_COLOR_ALPHA" ->
               LET px_size == Shr(lv_img_color_format_get_px_size(cf), 3)
                   a == EffAddr(0, TruePx(d.w, x, y, px_size), wrap)
                   n == TrueColorAlphaCopyLen(px_size)
               IN  [data |-> MemcpyColor(d.data, a, c, n),
                    acc |-> IF a < 0 THEN {a} ELSE a .. (a + n - 1)]
          [] cf \in IndexedFormats ->
               LET bpp == lv_img_color_format_get_px_size(cf)
                   p == PackedPx(d.w, x, y, bpp)
                   a == EffAddr(PaletteBytes(cf), p.px, wrap)
               IN  [data |-> Wr(d.data, a, SetField(Rd(d.data, a), bpp, p.sh, c)),
                    acc |-> {a}]
          [] OTHER -> [data |-> d.data, acc |-> {}]

(***************************************************************************)
(* lv_img_buf_set_px_alpha                                                 *)
(***************************************************************************)
lv_img_buf_set_px_alpha(d, x, y, opa, wrap) ==
    LET cf == d.cf
    IN  CASE cf = "TRUE_COLOR_ALPHA" ->
               LET px_size == Shr(lv_img_color_format_get_px_size(cf), 3)
                   px == EffAddr(0, TruePx(d.w, x, y, px_size), wrap)
                   a == IF px < 0 THEN px ELSE px + px_size - 1
               IN  [data |-> Wr(d.data, a, opa), acc |-> {a}]
          [] cf \in {"ALPHA_1BIT", "ALPHA_2BIT", "ALPHA_4BIT"} ->
               LET bpp == lv_img_color_format_get_px_size(cf)
                   \* opa = opa >> 7 | opa >> 6 | opa >> 4
                   q == Shr(opa, 8 - bpp)
                   p == PackedPx(d.w, x, y, bpp)
                   a == EffAddr(0, p.px, wrap)
               IN  [data |-> Wr(d.data, a, SetField(Rd(d.data, a), bpp, p.sh, q)),
                    acc |-> {a}]
          [] cf = "ALPHA_8BIT" ->
               LET a == EffAddr(0, (d.w * y) + x, wrap)
               IN  [data |-> Wr(d.data, a, opa), acc |-> {a}]
          [] OTHER -> [data |-> d.data, acc |-> {}]

(***************************************************************************)
(* lv_img_buf_set_palette                                                  *)
(***************************************************************************)
\* lv_color_to32 of a 16 bit colour, as the four bytes of lv_color32_t
\* (blue, green, red, alpha)
lv_color_to32(c) ==
    <<(c % 32) * 8, ((c \div 32) % 64) * 4, ((c \div 2048) % 32) * 8, 255>>

\* The guard of lv_img_buf_set_palette: TRUE when the call is refused
PaletteIdInvalid(cf, id) ==
    \/ cf = "ALPHA_1BIT" /\ id > 1
    \/ cf = "ALPHA_2BIT" /\ id > 3
    \/ cf = "ALPHA_4BIT" /\ id > 15
    \/ cf = "ALPHA_8BIT"

lv_img_buf_set_palette(d, id, c) ==
    IF PaletteIdInvalid(d.cf, id)
    THEN [data |-> d.data, acc |-> {}, rej |-> TRUE]
    ELSE LET c32 == lv_color_to32(c)
             a == id * 4
             \* memcpy(&buf[id * sizeof(c32)], &c32, sizeof(c32))
             w0 == Wr(d.data, a, c32[1])
             w1 == Wr(w0, a + 1, c32[2])
             w2 == Wr(w1, a + 2, c32[3])
             w3 == Wr(w2, a + 3, c32[4])
         IN  [data |-> w3, acc |-> a .. (a + 3), rej |-> FALSE]

(***************************************************************************)
(* Areas (lv_area_t)                                                       *)
(***************************************************************************)
Max(a, b) == IF a > b THEN a ELSE b
Min(a, b) == IF a < b THEN a ELSE b

Area(x1, y1, x2, y2) == [x1 |-> x1, y1 |-> y1, x2 |-> x2, y2 |-> y2]

\* lv_area_intersect: the common area and whether there is one
lv_area_intersect(a1, a2) ==
    LET r == Area(Max(a1.x1, a2.x1), Max(a1.y1, a2.y1), Min(a1.x2, a2.x2), Min(a1.y2, a2.y2))
    IN  [ok |-> ~(r.x1 > r.x2 \/ r.y1 > r.y2), area |-> r]

lv_area_get_width(a) == a.x2 - a.x1 + 1
lv_area_get_height(a) == a.y2 - a.y1 + 1
lv_area_set_height(a, h) == [a EXCEPT !.y2 = a.y1 + h - 1]

(***************************************************************************)
(* The collaborators of the drawing routines                               *)
(***************************************************************************)
\* The decoded source image: colour and alpha byte of its pixel (col, row)
SrcColor(seed, col, row) ==
    IF (col + row + seed) % 2 = 0 THEN LV_COLOR_TRANSP ELSE 31 + col + (32 * row)
SrcAlpha(seed, col, row) ==
    CASE (col + (2 * row) + seed) % 3 = 0 -> LV_OPA_COVER
      [] (col + (2 * row) + seed) % 3 = 1 -> LV_OPA_TRANSP
      [] OTHER -> 128

\* Byte `off` of a decoded buffer b = [x0, y0, w, px_size, seed]: the buffer holds
\* rows of w pixels starting at pixel (x0, y0) of the source, each pixel a
\* little-endian colour followed, when px_size says so, by its alpha byte
MapByte(b, off) ==
    LET p == off \div b.px_size
        k == off % b.px_size
        col == b.x0 + (p % b.w)
        row == b.y0 + (p \div b.w)
    IN  CASE k = 0 -> SrcColor(b.seed, col, row) % 256
          [] k = 1 -> SrcColor(b.seed, col, row) \div 256
          [] OTHER -> SrcAlpha(b.seed, col, row)

\* lv_color_mix(c1, c2, mix) on the channels of a 16 bit colour
MixChannel(v1, v2, mix) == ((v1 * mix) + (v2 * (255 - mix))) \div 256
lv_color_mix(c1, c2, mix) ==
    MixChannel(c1 % 32, c2 % 32, mix)
    + (32 * MixChannel((c1 \div 32) % 64, (c2 \div 32) % 64, mix))
    + (2048 * MixChannel(c1 \div 2048, c2 \div 2048, mix))

\* Opacity of the external masks at an absolute position
MaskOpa(abs_x, abs_y) == IF (abs_x + abs_y) % 2 = 0 THEN 128 ELSE LV_OPA_COVER

\* lv_draw_mask_apply on one entry of the row: a "CHANGED" verdict has
\* attenuated the entry, the other verdicts leave the buffer as it is
lv_draw_mask_apply(old, abs_x, abs_y, verdict) ==
    IF verdict = "CHANGED" THEN (old * MaskOpa(abs_x, abs_y)) \div 256 ELSE old

(***************************************************************************)
(* lv_img_draw_core: effective opacity                                     *)
(***************************************************************************)
\* Mutant of EffectiveOpa: the product is taken for LV_OPA_COVER as well
EffectiveOpa_AlwaysScaled(style_opa, opa_scale) ==
    (((style_opa * opa_scale) % 65536) \div 256) % 256

\* opa_scale == LV_OPA_COVER ? style->image.opa
\*                           : (uint16_t)((uint16_t)style->image.opa * opa_scale) >> 8
\* assigned to an lv_opa_t (uint8_t)
EffectiveOpa(style_opa, opa_scale) ==
    IF opa_scale = LV_OPA_COVER THEN style_opa
    ELSE (((style_opa * opa_scale) % 65536) \div 256) % 256

(***************************************************************************)
(* The calls explored                                                      *)
(***************************************************************************)
DispX2 == DispX1 + LV_HOR_RES_MAX - 1
DispY2 == DispY1 + MaxRows - 1

\* coords: the area of the image, which may start left of the display
CoordAreas ==
    { Area(x1, DispY1, x1 + w - 1, DispY1 + h - 1) :
        x1 \in {DispX1 - 1, DispX1}, w \in {1, 2, LV_HOR_RES_MAX}, h \in {1, MaxRows} }

\* mask: the clip area, "truncated to VDB area"
ClipAreas ==
    { Area(DispX1, DispY1, DispX2, DispY2),
      Area(DispX1 + 1, DispY1 + 1, DispX2, DispY2),
      Area(DispX1, DispY2, DispX2, DispY2) }

\* style->image.opa and opa_scale
OpaPairs == { <<255, 255>>, <<252, 255>>, <<255, 128>>, <<10, 255>> }

\* The formats a decoder hands to lv_draw_map: plain, chroma keyed, with alpha byte
DrawFormats == {"TRUE_COLOR", "TRUE_COLOR_CHROMA_KEYED", "TRUE_COLOR_ALPHA"}

MkCall(coords, mask, src, op, open, cf, intense, cnt, seed) ==
    [coords |-> coords, mask |-> mask, src |-> src,
     style_opa |-> op[1], opa_scale |-> op[2],
     recolor |-> 63488, intense |-> intense,
     open |-> open, error_msg |-> "decode error", cf |-> cf,
     mask_cnt |-> cnt, seed |-> seed]

Calls ==
    { MkCall(c, m, "NULL", <<255, 255>>, "null", "TRUE_COLOR", 0, 0, 0) :
        c \in CoordAreas, m \in ClipAreas }
    \cup
    { MkCall(c, m, "IMG", <<255, 255>>, open, "TRUE_COLOR", 0, 0, 0) :
        c \in CoordAreas, m \in ClipAreas, open \in {"null", "error"} }
    \cup
    { MkCall(c, m, "IMG", op, open, cf, intense, cnt, seed) :
        c \in CoordAreas, m \in ClipAreas, op \in OpaPairs, open \in {"full", "stream"},
        cf \in DrawFormats, intense \in {0, 128}, cnt \in {0, 1}, seed \in {0, 1} }

\* mask_com and opa of lv_img_draw_core
MaskCom == lv_area_intersect(call.mask, call.coords)
CoreOpa == EffectiveOpa(call.style_opa, call.opa_scale)

NoCall == MkCall(Area(0, 0, 0, 0), Area(0, 0, 0, 0), "NULL", <<255, 255>>, "null",
                 "TRUE_COLOR", 0, 0, 0)
NoLoop == [line |-> Area(0, 0, 0, 0), x |-> 0, y |-> 0, row |-> 0]
NoBuf == [x0 |-> 0, y0 |-> 0, w |-> 1, px_size |-> 1, seed |-> 0]
NoDm == [map_area |-> Area(0, 0, 0, 0), clip_area |-> Area(0, 0, 0, 0), draw_area |-> Area(0, 0, 0, 0),
         blend_area |-> Area(0, 0, 0, 0), buf |-> NoBuf, map_off |-> 0, map_w |-> 0,
         px_size_byte |-> 0, opa |-> 0, chroma_key |-> FALSE, alpha_byte |-> FALSE,
         recolor_opa |-> 0, other_mask_cnt |-> 0, px_i |-> 0, y |-> 0,
         mask_res |-> "FULL_COVER", max_i |-> -1, ret |-> "none"]
NoScratch == [map2 |-> <<>>, mask_buf |-> <<>>, key |-> <<>>, verdicts |-> <<>>]

DrawIdle ==
    /\ pc = "call"
    /\ loop = NoLoop
    /\ dm = NoDm
    /\ scratch = NoScratch
    /\ res = "none"
    /\ opened = 0
    /\ closes = 0
    /\ reads = <<>>
    /\ maps = <<>>
    /\ blends = <<>>
    /\ fallbacks = <<>>

(***************************************************************************)
(* SpecCodec: the accessors applied to an image descriptor                 *)
(***************************************************************************)
\* Initial content of byte i of a buffer
FillByte(seed, i) == (seed + (37 * i)) % 256

Images ==
    { [cf |-> cf, w |-> w, h |-> h,
       data |-> [i \in 0 .. (BufSize(cf, w, h) - 1) |-> FillByte(seed, i)]] :
        cf \in Formats, w \in 1 .. MaxImgW, h \in 1 .. MaxImgH, seed \in {165, 60} }

\* Argument values of the calls: coordinates from one before the first to one
\* past the last column and row
CoordsX == -1 .. dsc.w
CoordsY == -1 .. dsc.h
\* A getter called after a setter reads back the coordinate that was written
ReadX == IF setop.op \in {"set_px_color", "set_px_alpha"} THEN {setop.x} ELSE CoordsX
ReadY == IF setop.op \in {"set_px_color", "set_px_alpha"} THEN {setop.y} ELSE CoordsY
Colors == {0, 1, 6, 2016, 65535}
Opas == {0, 17, 100, 127, 128, 200, 255}
PaletteIds == {0, 1, 2, 4, 16, 255}
Styles == IF dsc.cf \in AlphaFormats THEN {-1, 31} ELSE {-1}

NoOp == [op |-> "none", x |-> 0, y |-> 0, v |-> 0, ret |-> 0, acc |-> {}, rej |-> FALSE]

\* What an access outside the buffer leads to
UbOutcome(acc, fault) ==
    IF acc \subseteq DOMAIN dsc.data THEN "none"
    ELSE IF fault THEN "fault" ELSE "stray_write"

\* The image as constructed: no accessor has been called on it yet
Fresh == setop.op = "none" /\ getop.op = "none"

InitCodec ==
    /\ dsc \in Images
    /\ pre = dsc.data
    /\ setop = NoOp
    /\ getop = NoOp
    /\ ub = "none"
    /\ call = NoCall
    /\ DrawIdle

SetPxColor ==
    /\ Fresh
    /\ \E x \in CoordsX, y \in CoordsY, c \in Colors, wrap \in BOOLEAN, fault \in BOOLEAN :
          LET r == lv_img_buf_set_px_color(dsc, x, y, c, wrap)
          IN  /\ dsc' = [dsc EXCEPT !.data = r.data]
              /\ pre' = dsc.data
              /\ setop' = [op |-> "set_px_color", x |-> x, y |-> y, v |-> c,
                           ret |-> 0, acc |-> r.acc, rej |-> FALSE]
              /\ getop' = NoOp
              /\ ub' = UbOutcome(r.acc, fault)
              /\ UNCHANGED drawVars

SetPxAlpha ==
    /\ Fresh
    /\ \E x \in CoordsX, y \in CoordsY, o \in Opas, wrap \in BOOLEAN, fault \in BOOLEAN :
          LET r == lv_img_buf_set_px_alpha(dsc, x, y, o, wrap)
          IN  /\ dsc' = [dsc EXCEPT !.data = r.data]
              /\ pre' = dsc.data
              /\ setop' = [op |-> "set_px_alpha", x |-> x, y |-> y, v |-> o,
                           ret |-> 0, acc |-> r.acc, rej |-> FALSE]
              /\ getop' = NoOp
              /\ ub' = UbOutcome(r.acc, fault)
              /\ UNCHANGED drawVars

SetPalette ==
    /\ Fresh
    /\ \E id \in PaletteIds, c \in {2016, 65535}, fault \in BOOLEAN :
          LET r == lv_img_buf_set_palette(dsc, id, c)
          IN  /\ dsc' = [dsc EXCEPT !.data = r.data]
              /\ pre' = dsc.data
              /\ setop' = [op |-> "set_palette", x |-> id, y |-> 0, v |-> c,
                           ret |-> 0, acc |-> r.acc, rej |-> r.rej]
              /\ getop' = NoOp
              /\ ub' = UbOutcome(r.acc, fault)
              /\ UNCHANGED drawVars

GetPxColor ==
    /\ ub # "fault"
    /\ \E x \in ReadX, y \in ReadY, style \in Styles :
          LET r == lv_img_buf_get_px_color(dsc, x, y, style)
          IN  getop' = [op |-> "get_px_color", x |-> x, y |-> y, v |-> style,
                        ret |-> r.val, acc |-> r.acc, rej |-> FALSE]
    /\ UNCHANGED <<dsc, pre, setop, ub>>
    /\ UNCHANGED drawVars

GetPxAlpha ==
    /\ ub # "fault"
    /\ \E x \in ReadX, y \in ReadY :
          LET r == lv_img_buf_get_px_alpha(dsc, x, y)
          IN  getop' = [op |-> "get_px_alpha", x |-> x, y |-> y, v |-> 0,
                        ret |-> r.val, acc |-> r.acc, rej |-> FALSE]
    /\ UNCHANGED <<dsc, pre, setop, ub>>
    /\ UNCHANGED drawVars

NextCodec == SetPxColor \/ SetPxAlpha \/ SetPalette \/ GetPxColor \/ GetPxAlpha

SpecCodec == InitCodec /\ [][NextCodec]_vars

(***************************************************************************)
(* Properties of the accessors (SpecCodec)                                 *)
(***************************************************************************)
InRange(x, y) == x \in 0 .. (dsc.w - 1) /\ y \in 0 .. (dsc.h - 1)

\* The image as it was before the setter ran
PreDsc == [dsc EXCEPT !.data = pre]

\* The bytes that encode pixel (x, y), 0 <= x < w, 0 <= y < h
PixelBytes(d, x, y) ==
    IF d.cf \in TrueColorFormats
    THEN LET px_size == lv_img_color_format_get_px_size(d.cf) \div 8
             px == TruePx(d.w, x, y, px_size)
         IN  px .. (px + px_size - 1)
    ELSE {PaletteBytes(d.cf) + PackedPx(d.w, x, y, lv_img_color_format_get_px_size(d.cf)).px}

\* Entries of the palette of a format, as the claim counts them
PaletteSize(cf) ==
    CASE cf \in {"INDEXED_1BIT", "ALPHA_1BIT"} -> 2
      [] cf \in {"INDEXED_2BIT", "ALPHA_2BIT"} -> 4
      [] cf \in {"INDEXED_4BIT", "ALPHA_4BIT"} -> 16
      [] cf = "INDEXED_8BIT" -> 256
      [] OTHER -> 0

\* A setter wrote an in-range pixel and the matching getter read it back
RoundTrip(setter, getter) ==
    /\ setop.op = setter
    /\ getop.op = getter
    /\ InRange(setop.x, setop.y)
    /\ getop.x = setop.x
    /\ getop.y = setop.y

(* C5: lv_img_buf_set_palette called with an index beyond the palette of the
   format (2/4/16/256 entries for INDEXED_1/2/4/8BIT, 2/4/16 for
   ALPHA_1/2/4BIT, any index for ALPHA_8BIT) is refused and leaves every byte
   of the buffer as it was. *)
C5_InvalidIdRejected ==
    (/\ setop.op = "set_palette"
     /\ dsc.cf \in IndexedFormats \cup AlphaFormats
     /\ setop.x >= PaletteSize(dsc.cf))
    => (setop.rej /\ dsc.data = pre /\ setop.acc = {})

(* C6 as claimed: for every format but the alpha-only ones, every in-range
   (x, y) and every colour c, set_px_color(x, y, c) followed by
   get_px_color(x, y) returns c. *)
C6_RoundTripReturnsColor ==
    (RoundTrip("set_px_color", "get_px_color") /\ dsc.cf \notin AlphaFormats)
    => getop.ret = setop.v

(* C6 as amended: the true colour formats return c; an INDEXED_nBIT format
   returns the low n bits of c, the index the pixel can hold. *)
C6_RoundTripReturnsStoredColor ==
    (RoundTrip("set_px_color", "get_px_color") /\ dsc.cf \notin AlphaFormats)
    => getop.ret = IF dsc.cf \in IndexedFormats
                   THEN setop.v % (2 ^ lv_img_color_format_get_px_size(dsc.cf))
                   ELSE setop.v

C6_Witness ==
    /\ RoundTrip("set_px_color", "get_px_color")
    /\ dsc.cf = "INDEXED_2BIT"
    /\ setop.v = 6
    /\ getop.ret = 2
    /\ dsc.data # pre

\* The quantization step of an alpha format
AlphaStep(cf) ==
    CASE cf = "ALPHA_1BIT" -> 128
      [] cf = "ALPHA_2BIT" -> 85
      [] cf = "ALPHA_4BIT" -> 17
      [] OTHER -> 0

Abs(v) == IF v < 0 THEN -v ELSE v

(* C7: for every alpha format (TRUE_COLOR_ALPHA, ALPHA_1/2/4/8BIT), every
   in-range (x, y) and every opacity o, set_px_alpha(x, y, o) followed by
   get_px_alpha(x, y) returns a value within one quantization step of o
   (128, 85, 17 for 1, 2, 4 bits, 0 for 8 bits and TRUE_COLOR_ALPHA). *)
C7_AlphaRoundTripWithinStep ==
    (/\ RoundTrip("set_px_alpha", "get_px_alpha")
     /\ dsc.cf \in AlphaFormats \cup {"TRUE_COLOR_ALPHA"})
    => Abs(getop.ret - setop.v) <= AlphaStep(dsc.cf)

(* C8: every pixel accessor clamps its coordinates to the nearest valid
   ones before addressing: the bytes it reads or writes are bytes of the
   pixel at the clamped coordinate, a pixel inside [0,w) x [0,h). *)
C8_AccessorsClamp ==
    /\ setop.op \in {"set_px_color", "set_px_alpha"}
          => setop.acc \subseteq
                PixelBytes(dsc, ClampCoord(setop.x, dsc.w), ClampCoord(setop.y, dsc.h))
    /\ getop.op \in {"get_px_color", "get_px_alpha"}
          => getop.acc \subseteq
                PixelBytes(dsc, ClampCoord(getop.x, dsc.w), ClampCoord(getop.y, dsc.h))
    /\ ub = "none"

(* C9: a pixel setter changes only the targeted component of the targeted
   pixel: after set_px_color on an in-range (x, y) the alpha of every pixel
   and the colour of every other pixel are as before; after set_px_alpha the
   colour of every pixel and the alpha of every other pixel are as before;
   no byte outside the pixel's own bytes changes. *)
C9_SetterFrame ==
    (setop.op \in {"set_px_color", "set_px_alpha"} /\ InRange(setop.x, setop.y))
    => /\ \A x \in 0 .. (dsc.w - 1), y \in 0 .. (dsc.h - 1) :
            /\ (setop.op = "set_px_alpha" \/ x # setop.x \/ y # setop.y)
                  => lv_img_buf_get_px_color(dsc, x, y, -1).val
                       = lv_img_buf_get_px_color(PreDsc, x, y, -1).val
            /\ (setop.op = "set_px_color" \/ x # setop.x \/ y # setop.y)
                  => lv_img_buf_get_px_alpha(dsc, x, y).val
                       = lv_img_buf_get_px_alpha(PreDsc, x, y).val
       /\ \A a \in DOMAIN pre :
            a \notin PixelBytes(dsc, setop.x, setop.y) => dsc.data[a] = pre[a]
       /\ ub = "none"

C9_Witness ==
    /\ setop.op = "set_px_color"
    /\ dsc.cf = "TRUE_COLOR_ALPHA"
    /\ dsc.w >= 2
    /\ InRange(setop.x, setop.y)
    /\ dsc.data # pre

(***************************************************************************)
(* lv_draw_map                                                             *)
(***************************************************************************)
\* Content of a scratch slot that was never written
UNINIT == -1

\* The return values of lv_img_draw_core
\* Mutant of NoIntersectRes: an image out of the mask is reported as an error
NoIntersectRes_Inv == "INV"
NoIntersectRes == "OK"
OpenFailRes == "INV"
\* Mutant of ReadFailRes: a failed read is reported as success
ReadFailRes_Ok == "OK"
ReadFailRes == "INV"
CoreEndRes == "OK"

\* The texts of the fallback labels lv_draw_img draws
NoDataText == "No\ndata"

\* lv_img_draw_core returns r to lv_draw_img, which on LV_RES_INV draws the
\* fallback (lv_draw_rect, then lv_draw_label with "No\ndata"); fb are the
\* fallbacks drawn before the return
Finish(fb, r) ==
    /\ res' = r
    /\ fallbacks' = IF r = "INV" THEN Append(fb, NoDataText) ELSE fb
    /\ pc' = "done"

\* Mutant of Return: the source row y is not advanced after a row is drawn
Return_SameSourceRow(retpc) ==
    IF retpc = "core_loop"
    THEN /\ pc' = "core_loop"
         /\ loop' = [loop EXCEPT !.line.y1 = @ + 1, !.line.y2 = @ + 1, !.row = @ + 1]
         /\ UNCHANGED <<res, fallbacks>>
    ELSE /\ loop' = loop
         /\ Finish(fallbacks, CoreEndRes)

\* Return of lv_draw_map to its caller: lv_img_draw_core's streaming loop goes
\* on to its next row (line.y1++, line.y2++, y++, row++); after the one call on
\* a fully decoded image lv_img_draw_core returns LV_RES_OK
Return(retpc) ==
    IF retpc = "core_loop"
    THEN /\ pc' = "core_loop"
         /\ loop' = [loop EXCEPT !.line.y1 = @ + 1, !.line.y2 = @ + 1,
                                 !.y = @ + 1, !.row = @ + 1]
         /\ UNCHANGED <<res, fallbacks>>
    ELSE /\ loop' = loop
         /\ Finish(fallbacks, CoreEndRes)

\* The condition of "the simplest case": the pixels are copied as they are
FastPath(other_mask_cnt, chroma_key, alpha_byte, opa, recolor_opa) ==
    /\ other_mask_cnt = 0
    /\ chroma_key = FALSE
    /\ alpha_byte = FALSE
    /\ opa = LV_OPA_COVER
    /\ recolor_opa = LV_OPA_TRANSP

\* A call of lv_blend_map. fast: map_buf is the caller's map_p with no mask;
\* otherwise map_buf and mask are the scratch buffers.
BlendCall(fast, clip, area, buf, sc, mask_res, opa) ==
    [fast |-> fast, clip |-> clip, area |-> area, buf |-> buf,
     map2 |-> sc.map2, mask_buf |-> sc.mask_buf, key |-> sc.key,
     verdicts |-> sc.verdicts,
     res |-> mask_res, opa |-> opa]

\* Entry of lv_draw_map, up to the first row of its general path
\* The simplest case: lv_blend_map(clip_area, map_area, map_p, NULL,
\* LV_MASK_RES_FULL_COVER, LV_OPA_COVER, LV_BLEND_MODE_NORMAL)
FastBlend(clip_area, map_area, buf) ==
    BlendCall(TRUE, clip_area, map_area, buf, NoScratch, "FULL_COVER", LV_OPA_COVER)

\* The general path of lv_draw_map up to its loop over y: the first displayed
\* pixel of the map, blend_area, and mask_buf preset when there are masks
GeneralEnter(map_area, clip_area, buf, opa, chroma_key, alpha_byte, recolor_opa, retpc) ==
    LET common == lv_area_intersect(map_area, clip_area)
        draw_area == Area(common.area.x1 - DispX1, common.area.y1 - DispY1,
                          common.area.x2 - DispX1, common.area.y2 - DispY1)
        other_mask_cnt == call.mask_cnt
        px_size_byte == IF alpha_byte THEN LV_IMG_PX_SIZE_ALPHA_BYTE ELSE SizeofColor
        map_w == lv_area_get_width(map_area)
        bx1 == draw_area.x1 + DispX1
        by1 == DispY1 + draw_area.y1
    IN  /\ dm' = [map_area |-> map_area, clip_area |-> clip_area,
                  draw_area |-> draw_area,
                  blend_area |-> Area(bx1, by1,
                                      bx1 + lv_area_get_width(draw_area) - 1, by1),
                  buf |-> buf,
                  map_off |-> (map_w * (draw_area.y1 - (map_area.y1 - DispY1))
                                 * px_size_byte)
                              + ((draw_area.x1 - (map_area.x1 - DispX1))
                                 * px_size_byte),
                  map_w |-> map_w, px_size_byte |-> px_size_byte, opa |-> opa,
                  chroma_key |-> chroma_key, alpha_byte |-> alpha_byte,
                  recolor_opa |-> recolor_opa, other_mask_cnt |-> other_mask_cnt,
                  px_i |-> 0, y |-> 0, mask_res |-> "FULL_COVER", max_i |-> -1,
                  ret |-> retpc]
        /\ scratch' = [map2 |-> [i \in 1 .. LV_HOR_RES_MAX |-> UNINIT],
                       mask_buf |-> [i \in 1 .. LV_HOR_RES_MAX |->
                                       IF other_mask_cnt # 0 THEN 255 ELSE UNINIT],
                       key |-> [i \in 1 .. LV_HOR_RES_MAX |-> FALSE],
                       verdicts |-> <<>>]
        /\ pc' = "map_rows"
        /\ UNCHANGED <<loop, res, blends, fallbacks>>

\* lv_draw_map from its entry to the fast path's lv_blend_map or to the loop
\* over y of the general path
DrawMapEnter(map_area, clip_area, buf, opa0, chroma_key, alpha_byte, recolor_opa, retpc) ==
    LET opa == IF opa0 > LV_OPA_MAX THEN LV_OPA_COVER ELSE opa0
        common == lv_area_intersect(map_area, clip_area)
        other_mask_cnt == call.mask_cnt
    IN  /\ maps' = Append(maps, [area |-> map_area, opa |-> opa0])
        /\ IF opa0 < LV_OPA_MIN \/ ~common.ok
           THEN /\ Return(retpc)
                /\ UNCHANGED <<dm, scratch, blends>>
           ELSE IF FastPath(other_mask_cnt, chroma_key, alpha_byte, opa, recolor_opa)
           THEN /\ blends' = Append(blends, FastBlend(clip_area, map_area, buf))
                /\ Return(retpc)
                /\ UNCHANGED <<dm, scratch>>
           ELSE GeneralEnter(map_area, clip_area, buf, opa, chroma_key, alpha_byte,
                             recolor_opa, retpc)

\* Mutant of ReadColor: only the low byte of the colour is read
ReadColor_LowByte(buf, off) == MapByte(buf, off)

\* c.full = map_px[0] + (map_px[1] << 8) for the pixel at byte `off`
ReadColor(buf, off) == MapByte(buf, off) + (MapByte(buf, off + 1) * 256)

\* Mutant of DecodePixel: a chroma keyed pixel is skipped without its alpha
\* being forced to LV_OPA_TRANSP
DecodePixel_KeyKeepsAlpha(buf, off, alpha_byte, chroma_key, recolor, recolor_opa) ==
    LET px_opa == MapByte(buf, off + LV_IMG_PX_SIZE_ALPHA_BYTE - 1)
        c == ReadColor(buf, off)
    IN  IF alpha_byte /\ px_opa < LV_OPA_MIN
        THEN [opa |-> px_opa, stored |-> FALSE, c |-> 0, key |-> FALSE]
        ELSE IF chroma_key /\ c = LV_COLOR_TRANSP
        THEN [opa |-> IF alpha_byte THEN px_opa ELSE LV_OPA_COVER,
              stored |-> FALSE, c |-> 0, key |-> TRUE]
        ELSE [opa |-> IF alpha_byte THEN px_opa ELSE LV_OPA_COVER, stored |-> TRUE,
              c |-> IF recolor_opa # 0 THEN lv_color_mix(recolor, c, recolor_opa) ELSE c,
              key |-> FALSE]

\* The body of the loop over x for the pixel at byte `off` of the map:
\* opa is what mask_buf[px_i] gets, c what map2[px_i] gets when stored,
\* key whether the decoded colour was the chroma key
DecodePixel(buf, off, alpha_byte, chroma_key, recolor, recolor_opa) ==
    LET px_opa == MapByte(buf, off + LV_IMG_PX_SIZE_ALPHA_BYTE - 1)
        c == ReadColor(buf, off)
    IN  IF alpha_byte /\ px_opa < LV_OPA_MIN
        THEN [opa |-> px_opa, stored |-> FALSE, c |-> 0, key |-> FALSE]
        ELSE IF chroma_key /\ c = LV_COLOR_TRANSP
        THEN [opa |-> LV_OPA_TRANSP, stored |-> FALSE, c |-> 0, key |-> TRUE]
        ELSE [opa |-> IF alpha_byte THEN px_opa ELSE LV_OPA_COVER, stored |-> TRUE,
              c |-> IF recolor_opa # 0 THEN lv_color_mix(recolor, c, recolor_opa) ELSE c,
              key |-> FALSE]

\* mask_res of a row before the masks are applied
RowMaskRes(alpha_byte, chroma_key) ==
    IF alpha_byte \/ chroma_key THEN "CHANGED" ELSE "FULL_COVER"

\* mask_res of a row after lv_draw_mask_apply returned `verdict`
AppliedMaskRes(mask_res, other_mask_cnt, verdict) ==
    IF other_mask_cnt # 0 /\ verdict \in {"FULL_TRANSP", "CHANGED"}
    THEN "CHANGED" ELSE mask_res

\* Mutant of Accumulate: the room left in the scratch buffers is not checked
Accumulate_Always(px_i, w) == TRUE

\* if(px_i + lv_area_get_width(&draw_area) < sizeof(mask_buf)): the next row
\* is accumulated into the same block
Accumulate(px_i, w) == px_i + w < LV_HOR_RES_MAX

\* Mutant of RowAdvance: the pixel size is left out of the step to the next row
RowAdvance_Pixels(map_w, px_size_byte) == map_w

\* map_buf_tmp += map_w * px_size_byte
RowAdvance(map_w, px_size_byte) == map_w * px_size_byte

\* One pass of the loop over y: a row is decoded into the scratch buffers, the
\* masks are applied to it, and the block is flushed when the next row may not fit
MapRow ==
    /\ pc = "map_rows"
    /\ dm.y < lv_area_get_height(dm.draw_area)
    /\ \E verdict \in IF dm.other_mask_cnt = 0 THEN {"FULL_COVER"}
                      ELSE {"FULL_COVER", "CHANGED", "FULL_TRANSP"} :
          LET w == lv_area_get_width(dm.draw_area)
              start == dm.px_i
              InRow(i) == (i - 1) \in start .. (start + w - 1)
              Px(i) == DecodePixel(dm.buf, dm.map_off + ((i - 1 - start) * dm.px_size_byte),
                                   dm.alpha_byte, dm.chroma_key, call.recolor, dm.recolor_opa)
              abs_y == dm.y + dm.draw_area.y1 + DispY1
              AbsX(i) == dm.draw_area.x1 + DispX1 + (i - 1 - start)
              map2 == [i \in 1 .. LV_HOR_RES_MAX |->
                         IF InRow(i) /\ Px(i).stored THEN Px(i).c ELSE scratch.map2[i]]
              key == [i \in 1 .. LV_HOR_RES_MAX |->
                         IF InRow(i) THEN Px(i).key ELSE scratch.key[i]]
              decoded == [i \in 1 .. LV_HOR_RES_MAX |->
                            IF InRow(i) THEN Px(i).opa ELSE scratch.mask_buf[i]]
              mask_buf == [i \in 1 .. LV_HOR_RES_MAX |->
                             IF InRow(i) /\ dm.other_mask_cnt # 0
                             THEN IF verdict = "FULL_TRANSP" THEN 0
                                  ELSE lv_draw_mask_apply(decoded[i], AbsX(i), abs_y, verdict)
                             ELSE decoded[i]]
              mask_res == AppliedMaskRes(RowMaskRes(dm.alpha_byte, dm.chroma_key),
                                         dm.other_mask_cnt, verdict)
              px_i == start + w
              sc == [map2 |-> map2, mask_buf |-> mask_buf, key |-> key,
                     verdicts |-> Append(scratch.verdicts, verdict)]
              next == [dm EXCEPT !.map_off = @ + RowAdvance(dm.map_w, dm.px_size_byte),
                                 !.y = @ + 1, !.mask_res = mask_res,
                                 !.max_i = Max(@, px_i - 1)]
          IN  IF Accumulate(px_i, w)
              THEN /\ dm' = [next EXCEPT !.px_i = px_i, !.blend_area.y2 = @ + 1]
                   /\ scratch' = sc
                   /\ blends' = blends
              ELSE /\ blends' = Append(blends,
                          BlendCall(FALSE, dm.clip_area, dm.blend_area, NoBuf, sc,
                                    mask_res, LV_OPA_COVER))
                   /\ dm' = [next EXCEPT !.px_i = 0,
                                         !.blend_area.y1 = dm.blend_area.y2 + 1,
                                         !.blend_area.y2 = dm.blend_area.y2 + 1]
                   /\ scratch' = IF dm.other_mask_cnt # 0
                                 THEN [sc EXCEPT !.mask_buf = [i \in 1 .. LV_HOR_RES_MAX |-> 255],
                                                 !.verdicts = <<>>]
                                 ELSE [sc EXCEPT !.verdicts = <<>>]
    /\ UNCHANGED <<call, pc, loop, res, opened, closes, reads, maps, fallbacks>>
    /\ UNCHANGED codecVars

\* Mutant of LastPart: blend_area.y2 is not taken back
LastPart_NoDecrement(blend_area) == blend_area

\* blend_area.y2-- before the last part is flushed
LastPart(blend_area) == [blend_area EXCEPT !.y2 = @ - 1]

\* The loop over y is over: "flush the last part", then return
MapEnd ==
    /\ pc = "map_rows"
    /\ dm.y >= lv_area_get_height(dm.draw_area)
    /\ IF dm.blend_area.y1 # dm.blend_area.y2
       THEN blends' = Append(blends,
                BlendCall(FALSE, dm.clip_area, LastPart(dm.blend_area), NoBuf,
                          scratch, dm.mask_res, LV_OPA_COVER))
       ELSE blends' = blends
    /\ Return(dm.ret)
    /\ dm' = NoDm
    /\ scratch' = NoScratch
    /\ UNCHANGED <<call, opened, closes, reads, maps>>
    /\ UNCHANGED codecVars

(***************************************************************************)
(* lv_draw_img and lv_img_draw_core                                        *)
(***************************************************************************)
\* Mutant of NullSrcFallback: the NULL source is only logged
NullSrcFallback_None == fallbacks

\* lv_draw_img with src == NULL: lv_draw_rect, then lv_draw_label("No\ndata")
NullSrcFallback == Append(fallbacks, NoDataText)

\* Mutant of ErrorFallback: the label of the error fallback is the fixed text
ErrorFallback_NoData == Append(fallbacks, NoDataText)

\* The opened entry has an error message: lv_draw_rect, then lv_draw_label
\* with that message
ErrorFallback == Append(fallbacks, call.error_msg)

\* Mutant of ReadFailCloses: the decoder is left open when a line cannot be read
ReadFailCloses_None == closes

\* lv_img_decoder_close on the failure of lv_img_decoder_read_line
ReadFailCloses == closes + 1

\* What the decoder says about the format of the opened image
ChromaKeyed == lv_img_color_format_is_chroma_keyed(call.cf)
AlphaByte == lv_img_color_format_has_alpha(call.cf)

\* The decoded buffers: the whole image (rows as wide as the image), or the
\* line lv_img_decoder_read_line(x, y, width) filled
ImgData ==
    [x0 |-> 0, y0 |-> 0, w |-> lv_area_get_width(call.coords),
     px_size |-> IF AlphaByte THEN LV_IMG_PX_SIZE_ALPHA_BYTE ELSE SizeofColor,
     seed |-> call.seed]
LineData(x, y, width) ==
    [x0 |-> x, y0 |-> y, w |-> width,
     px_size |-> IF AlphaByte THEN LV_IMG_PX_SIZE_ALPHA_BYTE ELSE SizeofColor,
     seed |-> call.seed]

\* lv_draw_img with src == NULL
DrawImgNullSrc ==
    /\ pc = "call"
    /\ call.src = "NULL"
    /\ fallbacks' = NullSrcFallback
    /\ pc' = "done"
    /\ UNCHANGED <<call, loop, dm, scratch, res, opened, closes, reads, maps, blends>>
    /\ UNCHANGED codecVars

\* lv_img_draw_core: mask and coords have no common area
CoreNoIntersect ==
    /\ pc = "call"
    /\ call.src # "NULL"
    /\ ~MaskCom.ok
    /\ Finish(fallbacks, NoIntersectRes)
    /\ UNCHANGED <<call, loop, dm, scratch, opened, closes, reads, maps, blends>>
    /\ UNCHANGED codecVars

\* lv_img_cache_open returns NULL: LV_RES_INV, and lv_draw_img draws the fallback
CoreOpenFail ==
    /\ pc = "call"
    /\ call.src # "NULL"
    /\ MaskCom.ok
    /\ call.open = "null"
    /\ Finish(fallbacks, OpenFailRes)
    /\ UNCHANGED <<call, loop, dm, scratch, opened, closes, reads, maps, blends>>
    /\ UNCHANGED codecVars

\* The opened entry carries an error message
CoreDecodeError ==
    /\ pc = "call"
    /\ call.src # "NULL"
    /\ MaskCom.ok
    /\ call.open = "error"
    /\ opened' = opened + 1
    /\ Finish(ErrorFallback, CoreEndRes)
    /\ UNCHANGED <<call, loop, dm, scratch, closes, reads, maps, blends>>
    /\ UNCHANGED codecVars

\* The opened entry holds the whole decoded image: one call of lv_draw_map
CoreFullBuffer ==
    /\ pc = "call"
    /\ call.src # "NULL"
    /\ MaskCom.ok
    /\ call.open = "full"
    /\ opened' = opened + 1
    /\ DrawMapEnter(call.coords, call.mask, ImgData, CoreOpa, ChromaKeyed, AlphaByte,
                    call.intense, "core_end")
    /\ UNCHANGED <<call, closes, reads>>
    /\ UNCHANGED codecVars

\* The image is read line by line: the loop over the rows of mask_com starts
CoreStreamBegin ==
    /\ pc = "call"
    /\ call.src # "NULL"
    /\ MaskCom.ok
    /\ call.open = "stream"
    /\ opened' = opened + 1
    /\ loop' = [line |-> lv_area_set_height(MaskCom.area, 1),
                x |-> MaskCom.area.x1 - call.coords.x1,
                y |-> MaskCom.area.y1 - call.coords.y1,
                row |-> MaskCom.area.y1]
    /\ pc' = "core_loop"
    /\ UNCHANGED <<call, dm, scratch, res, closes, reads, maps, blends, fallbacks>>
    /\ UNCHANGED codecVars

\* A row whose line is read: it is drawn by lv_draw_map
CoreRowOk ==
    /\ pc = "core_loop"
    /\ loop.row <= MaskCom.area.y2
    /\ LET width == lv_area_get_width(MaskCom.area)
       IN  /\ reads' = Append(reads, [x |-> loop.x, y |-> loop.y, w |-> width, ok |-> TRUE])
           /\ DrawMapEnter(loop.line, call.mask, LineData(loop.x, loop.y, width), CoreOpa,
                           ChromaKeyed, AlphaByte, call.intense, "core_loop")
    /\ UNCHANGED <<call, opened, closes>>
    /\ UNCHANGED codecVars

\* A row whose line cannot be read: the decoder is closed, LV_RES_INV is
\* returned and lv_draw_img draws the fallback
CoreRowFail ==
    /\ pc = "core_loop"
    /\ loop.row <= MaskCom.area.y2
    /\ reads' = Append(reads, [x |-> loop.x, y |-> loop.y,
                               w |-> lv_area_get_width(MaskCom.area), ok |-> FALSE])
    /\ closes' = ReadFailCloses
    /\ Finish(fallbacks, ReadFailRes)
    /\ UNCHANGED <<call, loop, dm, scratch, opened, maps, blends>>
    /\ UNCHANGED codecVars

\* The loop is over: LV_RES_OK
CoreLoopEnd ==
    /\ pc = "core_loop"
    /\ loop.row > MaskCom.area.y2
    /\ Finish(fallbacks, CoreEndRes)
    /\ UNCHANGED <<call, loop, dm, scratch, opened, closes, reads, maps, blends>>
    /\ UNCHANGED codecVars

CodecIdle ==
    /\ dsc = [cf |-> "TRUE_COLOR", w |-> 1, h |-> 1, data |-> [i \in 0 .. 1 |-> 0]]
    /\ pre = dsc.data
    /\ setop = NoOp
    /\ getop = NoOp
    /\ ub = "none"

Init ==
    /\ call \in Calls
    /\ DrawIdle
    /\ CodecIdle

Next ==
    \/ DrawImgNullSrc
    \/ CoreNoIntersect
    \/ CoreOpenFail
    \/ CoreDecodeError
    \/ CoreFullBuffer
    \/ CoreStreamBegin
    \/ CoreRowOk
    \/ CoreRowFail
    \/ CoreLoopEnd
    \/ MapRow
    \/ MapEnd

Spec == Init /\ [][Next]_vars


\* ---------------------------------------------------------------------------
\* lv_blend_map: what a call writes to the display buffer
\* ---------------------------------------------------------------------------
\* The call b writes the pixel (x, y): it is inside the blended area and the clip
BlendCovers(b, x, y) ==
    /\ x \in Max(b.area.x1, b.clip.x1) .. Min(b.area.x2, b.clip.x2)
    /\ y \in Max(b.area.y1, b.clip.y1) .. Min(b.area.y2, b.clip.y2)

\* Index of (x, y) in the colour and mask arrays handed over, rows as wide as the area
BlendIndex(b, x, y) ==
    ((y - b.area.y1) * lv_area_get_width(b.area)) + (x - b.area.x1)

\* The colour handed over for (x, y)
BlendColor(b, x, y) ==
    IF b.fast THEN ReadColor(b.buf, BlendIndex(b, x, y) * SizeofColor)
    ELSE b.map2[BlendIndex(b, x, y) + 1]

\* The opacity (x, y) is blended with: the mask array counts only when it is
\* given and mask_res is not LV_MASK_RES_FULL_COVER; opa scales it
BlendAlpha(b, x, y) ==
    LET m == IF b.fast \/ b.res = "FULL_COVER" THEN LV_OPA_COVER
             ELSE b.mask_buf[BlendIndex(b, x, y) + 1]
    IN  IF b.opa = LV_OPA_COVER THEN m ELSE (m * b.opa) \div 256

\* What the calls bs write at (x, y): pairs of colour and opacity
Written(bs, x, y) ==
    {<<BlendColor(bs[n], x, y), BlendAlpha(bs[n], x, y)>> :
        n \in {k \in 1 .. Len(bs) : BlendCovers(bs[k], x, y)
                                      /\ BlendAlpha(bs[k], x, y) > 0}}

\* ---------------------------------------------------------------------------
\* SpecPaths: the general path of lv_draw_map run on the inputs of its fast path
\* ---------------------------------------------------------------------------
PathCalls ==
    {c \in Calls : /\ c.src # "NULL"
                   /\ c.open = "full"
                   /\ c.cf = "TRUE_COLOR"
                   /\ c.intense = 0
                   /\ c.mask_cnt = 0
                   /\ EffectiveOpa(c.style_opa, c.opa_scale) > LV_OPA_MAX
                   /\ lv_area_intersect(c.mask, c.coords).ok}

InitPaths ==
    /\ call \in PathCalls
    /\ DrawIdle
    /\ CodecIdle

\* lv_draw_map enters its else branch on a fully decoded TRUE_COLOR image
PathGeneralEnter ==
    /\ pc = "call"
    /\ opened' = opened + 1
    /\ maps' = Append(maps, [area |-> call.coords, opa |-> CoreOpa])
    /\ GeneralEnter(call.coords, call.mask, ImgData, LV_OPA_COVER, ChromaKeyed, AlphaByte,
                    call.intense, "core_end")
    /\ UNCHANGED <<call, closes, reads>>
    /\ UNCHANGED codecVars

NextPaths ==
    \/ PathGeneralEnter
    \/ MapRow
    \/ MapEnd

SpecPaths == InitPaths /\ [][NextPaths]_vars

\* ---------------------------------------------------------------------------
\* SpecOpa: one pixel drawn with every style opacity and every opa_scale
\* ---------------------------------------------------------------------------
OpaValues == 0 .. LV_OPA_COVER

OpaCalls ==
    { MkCall(Area(DispX1, DispY1, DispX1, DispY1), Area(DispX1, DispY1, DispX2, DispY2),
             "IMG", <<so, sc>>, "full", "TRUE_COLOR", 0, 0, 0) :
        so \in OpaValues, sc \in OpaValues }

InitOpa ==
    /\ call \in OpaCalls
    /\ DrawIdle
    /\ CodecIdle

NextOpa ==
    \/ CoreFullBuffer
    \/ MapRow
    \/ MapEnd

SpecOpa == InitOpa /\ [][NextOpa]_vars

\* ---------------------------------------------------------------------------
\* Properties of lv_draw_img, lv_img_draw_core and lv_draw_map
\* ---------------------------------------------------------------------------

ReadFailed == \E i \in 1 .. Len(reads) : ~reads[i].ok

(* C1 as stated: every lv_draw_img / lv_img_draw_core invocation that opened a
   cache entry has closed it when it returns, whichever exit path it took
   (decode-error fallback, full-buffer draw, end of the row loop, read failure). *)
C1_EveryOpenIsClosed ==
    (pc = "done" /\ opened > 0) => closes = opened

(* C1, amended: an invocation opens at most one cache entry and closes it
   (lv_img_decoder_close, once) exactly when a scan-line read failed; on the
   decode-error fallback, the full-buffer draw and the successful end of the row
   loop it returns with the entry still open, owned by the cache. *)
C1_ClosedOnlyOnReadFailure ==
    /\ opened <= 1
    /\ closes <= opened
    /\ pc # "done" => closes = 0
    /\ (pc = "done" /\ opened > 0) => closes = (IF ReadFailed THEN 1 ELSE 0)

C1_Witness ==
    /\ pc = "done"
    /\ call.open = "stream"
    /\ opened = 1
    /\ closes = 0
    /\ res = "OK"
    /\ Len(reads) >= 2
    /\ blends # <<>>

(* C2: when lv_img_decoder_read_line fails for the k-th row of mask_com, that
   read is the last one, lv_draw_map was called for the k-1 rows before it and
   for no row from k on, nothing was blended at row k or below, the decoder is
   closed exactly once and lv_img_draw_core has returned LV_RES_INV. *)
C2_ReadFailureAborts ==
    ReadFailed =>
        LET k == Len(reads)
        IN  /\ pc = "done"
            /\ res = "INV"
            /\ closes = 1
            /\ ~reads[k].ok
            /\ \A i \in 1 .. (k - 1) : reads[i].ok
            /\ \A i \in 1 .. k :
                  /\ reads[i].y = (MaskCom.area.y1 - call.coords.y1) + (i - 1)
                  /\ reads[i].x = MaskCom.area.x1 - call.coords.x1
            /\ Len(maps) = k - 1
            /\ \A i \in 1 .. (k - 1) :
                  /\ maps[i].area.y1 = MaskCom.area.y1 + (i - 1)
                  /\ maps[i].area.y2 = MaskCom.area.y1 + (i - 1)
            /\ \A n \in 1 .. Len(blends) :
                  blends[n].area.y2 < MaskCom.area.y1 + (k - 1)

C2_Witness ==
    /\ ReadFailed
    /\ Len(reads) >= 3
    /\ Len(maps) = Len(reads) - 1
    /\ blends # <<>>
    /\ closes = 1
    /\ res = "INV"

(* C3: lv_draw_img with a NULL source draws the fallback (rectangle, then the
   label "No\ndata") exactly once and returns; it opens no cache entry, reads
   no line, never calls lv_draw_map and never calls lv_blend_map. *)
C3_NullSourceFallback ==
    call.src = "NULL" =>
        /\ pc \in {"call", "done"}
        /\ opened = 0
        /\ closes = 0
        /\ reads = <<>>
        /\ maps = <<>>
        /\ blends = <<>>
        /\ pc = "call" => fallbacks = <<>>
        /\ pc = "done" => fallbacks = <<"No\ndata">>

C3_Witness ==
    /\ call.src = "NULL"
    /\ pc = "done"
    /\ Len(fallbacks) = 1
    /\ blends = <<>>

(* C4: when mask and coords have no common area, lv_img_draw_core (entered by
   lv_draw_img for every source that is not NULL) returns LV_RES_OK and has
   done nothing: no cache entry opened, no line read, no lv_draw_map and no
   lv_blend_map call, no fallback drawn. *)
C4_EmptyIntersectionNoOp ==
    (call.src # "NULL" /\ ~MaskCom.ok) =>
        /\ pc \in {"call", "done"}
        /\ pc = "done" => res = "OK"
        /\ opened = 0
        /\ closes = 0
        /\ reads = <<>>
        /\ maps = <<>>
        /\ blends = <<>>
        /\ fallbacks = <<>>

C4_Witness ==
    /\ call.src # "NULL"
    /\ ~MaskCom.ok
    /\ pc = "done"
    /\ res = "OK"
    /\ opened = 0

\* The source pixel drawn at slot i of the block handed to lv_blend_map
SlotX(b, i) == b.area.x1 + ((i - 1) % lv_area_get_width(b.area))
SlotY(b, i) == b.area.y1 + ((i - 1) \div lv_area_get_width(b.area))
SlotIsKey(b, i) ==
    SrcColor(call.seed, SlotX(b, i) - call.coords.x1, SlotY(b, i) - call.coords.y1)
        = LV_COLOR_TRANSP
Slots(b) == 1 .. (lv_area_get_width(b.area) * lv_area_get_height(b.area))

(* C10: with chroma_key true, whatever the opacity (at least LV_OPA_MIN), the
   recolor and the verdicts of the masks, every source pixel of the drawn area
   whose colour is LV_COLOR_TRANSP is handed to lv_blend_map, in a block whose
   mask_res is LV_MASK_RES_CHANGED, with mask_buf 0; no block takes the
   mask-less fast path. *)
C10_ChromaKeyReachesBlendTransparent ==
    ChromaKeyed =>
        /\ \A n \in 1 .. Len(blends) :
              LET b == blends[n]
              IN  /\ ~b.fast
                  /\ \A i \in Slots(b) :
                        /\ b.key[i] <=> SlotIsKey(b, i)
                        /\ SlotIsKey(b, i) =>
                              /\ b.mask_buf[i] = LV_OPA_TRANSP
                              /\ b.res = "CHANGED"
        /\ (pc = "done" /\ res = "OK" /\ opened = 1 /\ call.open \in {"full", "stream"}
                /\ CoreOpa >= LV_OPA_MIN) =>
              \A x \in MaskCom.area.x1 .. MaskCom.area.x2 :
                 \A y \in MaskCom.area.y1 .. MaskCom.area.y2 :
                    \E n \in 1 .. Len(blends) :
                       /\ x \in blends[n].area.x1 .. blends[n].area.x2
                       /\ y \in blends[n].area.y1 .. blends[n].area.y2

C10_Witness ==
    /\ pc = "done"
    /\ ChromaKeyed
    /\ call.mask_cnt # 0
    /\ call.intense # 0
    /\ \E n \in 1 .. Len(blends) :
          LET b == blends[n]
          IN  /\ lv_area_get_height(b.area) >= 2
              /\ \E i \in Slots(b) : SlotIsKey(b, i) /\ b.mask_buf[i] = 0
              /\ \E j \in Slots(b) : b.mask_buf[j] \notin {0, 255}


\* Positions of the display buffer and one pixel around it
PosX == (DispX1 - 1) .. (DispX2 + 1)
PosY == (DispY1 - 1) .. (DispY2 + 1)

(* C11: for an opaque, untinted TRUE_COLOR map without chroma key and alpha
   byte and with no mask, the blocks the general path hands to lv_blend_map
   write, at every position, the colour and opacity that the single
   lv_blend_map call of the fast path writes, for every map and clip area. *)
C11_FastPathEqualsGeneralPath ==
    (pc = "done" /\ call \in PathCalls /\ opened = 1) =>
        \A x \in PosX : \A y \in PosY :
            Written(blends, x, y)
                = Written(<<FastBlend(call.mask, call.coords, ImgData)>>, x, y)

C11_Witness ==
    /\ pc = "done"
    /\ call \in PathCalls
    /\ Len(blends) >= 2
    /\ \A n \in 1 .. Len(blends) : ~blends[n].fast
    /\ MaskCom.area # call.coords
    /\ \E x \in PosX : \E y \in PosY : Written(blends, x, y) # {}


(* C12: the opacity lv_img_draw_core hands to lv_draw_map is style->image.opa
   when opa_scale is LV_OPA_COVER, and otherwise (style->image.opa * opa_scale)
   >> 8, where the product fits 16 bits and the shifted value fits 8 bits; it
   never exceeds style->image.opa. *)
C12_EffectiveOpacity ==
    Len(maps) >= 1 =>
        LET o == maps[1].opa
            so == call.style_opa
            sc == call.opa_scale
        IN  /\ sc = LV_OPA_COVER => o = so
            /\ sc # LV_OPA_COVER =>
                  /\ so * sc < 65536
                  /\ (so * sc) \div 256 < 256
                  /\ o = (so * sc) \div 256
            /\ o <= so

C12_Witness ==
    /\ Len(maps) >= 1
    /\ call.style_opa = 255
    /\ call.opa_scale = 254
    /\ maps[1].opa = 253
    /\ pc = "done"
    /\ Len(blends) = 1


(* C13: when the opened cache entry carries an error message, the fallback
   (rectangle, then label) is drawn exactly once with that message as text,
   lv_draw_map and lv_blend_map are not called, no line is read, and
   lv_img_draw_core returns LV_RES_OK, so that lv_draw_img does not draw the
   "No\ndata" fallback as well. *)
C13_DecodeErrorFallback ==
    (call.src # "NULL" /\ MaskCom.ok /\ call.open = "error") =>
        /\ pc \in {"call", "done"}
        /\ reads = <<>>
        /\ maps = <<>>
        /\ blends = <<>>
        /\ pc = "call" => fallbacks = <<>>
        /\ pc = "done" =>
              /\ res = "OK"
              /\ fallbacks = <<call.error_msg>>
              /\ \A i \in 1 .. Len(fallbacks) : fallbacks[i] # "No\ndata"

C13_Witness ==
    /\ call.src # "NULL"
    /\ call.open = "error"
    /\ pc = "done"
    /\ opened = 1
    /\ fallbacks = <<"decode error">>


(* C14: with masks active, a block of the general path in which
   lv_draw_mask_apply returned LV_MASK_RES_CHANGED or LV_MASK_RES_FULL_TRANSP
   for at least one row is handed to lv_blend_map with LV_MASK_RES_CHANGED,
   never with LV_MASK_RES_FULL_COVER, also when a later row of the same block
   got LV_MASK_RES_FULL_COVER. *)
C14_MaskedBlockFlushedChanged ==
    call.mask_cnt # 0 =>
        \A n \in 1 .. Len(blends) :
            (/\ ~blends[n].fast
             /\ \E i \in 1 .. Len(blends[n].verdicts) :
                   blends[n].verdicts[i] \in {"CHANGED", "FULL_TRANSP"})
            => blends[n].res = "CHANGED"


\* The opacity lv_draw_map works with after its threshold checks
RequestedOpa == IF CoreOpa > LV_OPA_MAX THEN LV_OPA_COVER ELSE CoreOpa

(* C15: whenever the opacity lv_draw_map is asked for is, after the threshold
   clamping, below LV_OPA_COVER, every lv_blend_map call either gets that
   opacity as its opa argument or gets, flagged LV_MASK_RES_CHANGED, per-pixel
   alphas none of which exceeds it; the map is never blended at full cover. *)
C15_RequestedOpacityHonoured ==
    RequestedOpa < LV_OPA_COVER =>
        \A n \in 1 .. Len(blends) :
            \/ blends[n].opa = RequestedOpa
            \/ /\ ~blends[n].fast
               /\ blends[n].res = "CHANGED"
               /\ \A i \in Slots(blends[n]) : blends[n].mask_buf[i] <= RequestedOpa


\* The draw went, or goes, through the general path of lv_draw_map
GeneralDraw ==
    /\ call.src # "NULL"
    /\ MaskCom.ok
    /\ call.open \in {"full", "stream"}
    /\ CoreOpa >= LV_OPA_MIN
    /\ ~FastPath(call.mask_cnt, ChromaKeyed, AlphaByte, RequestedOpa, call.intense)

(* C16: in the general path the blocks handed to lv_blend_map come in
   ascending y order, each is not empty and as wide as the intersection, each
   starts on the row after the one before it ends on (so they are disjoint),
   the first starts on the first row of the intersection, and when the draw
   has returned the last one, the final partial block included, ends on its
   last row: every row of the intersection is in exactly one block. *)
C16_BlocksPartitionIntersection ==
    GeneralDraw =>
        /\ \A n \in 1 .. Len(blends) :
              /\ ~blends[n].fast
              /\ blends[n].area.x1 = MaskCom.area.x1
              /\ blends[n].area.x2 = MaskCom.area.x2
              /\ blends[n].area.y1 <= blends[n].area.y2
              /\ blends[n].area.y1 = IF n = 1 THEN MaskCom.area.y1
                                     ELSE blends[n - 1].area.y2 + 1
        /\ (pc = "done" /\ res = "OK") =>
              /\ Len(blends) >= 1
              /\ blends[Len(blends)].area.y2 = MaskCom.area.y2

C16_Witness ==
    /\ GeneralDraw
    /\ call.open = "full"
    /\ pc = "done"
    /\ Len(blends) = 2
    /\ lv_area_get_height(blends[1].area) = 3
    /\ lv_area_get_height(blends[2].area) = 1


(* C17: in the general path px_i stays inside the scratch buffers: the
   highest index written to map2 and mask_buf so far is below LV_HOR_RES_MAX,
   and the row segment that the next row fills and hands to
   lv_draw_mask_apply, px_i .. px_i + width - 1, ends below LV_HOR_RES_MAX,
   for every width and height of the draw area a clip area inside the display
   admits. *)
C17_ScratchCursorInBounds ==
    pc = "map_rows" =>
        /\ dm.max_i < LV_HOR_RES_MAX
        /\ dm.px_i >= 0
        /\ dm.y < lv_area_get_height(dm.draw_area) =>
              dm.px_i + lv_area_get_width(dm.draw_area) <= LV_HOR_RES_MAX

C17_Witness ==
    /\ pc = "map_rows"
    /\ dm.max_i = LV_HOR_RES_MAX - 1
    /\ lv_area_get_width(dm.draw_area) = LV_HOR_RES_MAX
    /\ dm.y >= 2


(* C18: reading line by line with no read failing, the i-th read (from 0)
   asks for the width of the intersection at x = intersection.x1 - coords.x1,
   y = (intersection.y1 - coords.y1) + i; its line is handed to lv_draw_map,
   on the one-row area at row intersection.y1 + i spanning intersection.x1 ..
   intersection.x2, and that lv_draw_map call has returned before the next
   read; when the draw has returned there was exactly one read per row. *)
C18_StreamingReadOrder ==
    (call.src # "NULL" /\ MaskCom.ok /\ call.open = "stream" /\ ~ReadFailed) =>
        /\ Len(maps) = Len(reads)
        /\ \A i \in 1 .. Len(reads) :
              /\ reads[i].ok
              /\ reads[i].w = lv_area_get_width(MaskCom.area)
              /\ reads[i].x = MaskCom.area.x1 - call.coords.x1
              /\ reads[i].y = (MaskCom.area.y1 - call.coords.y1) + (i - 1)
              /\ maps[i].area = Area(MaskCom.area.x1, MaskCom.area.y1 + (i - 1),
                                     MaskCom.area.x2, MaskCom.area.y1 + (i - 1))
        /\ \A n \in 1 .. Len(blends) :
              /\ blends[n].area.y1 = blends[n].area.y2
              /\ blends[n].fast =>
                    blends[n].buf = LineData(reads[n].x, reads[n].y, reads[n].w)
        /\ pc = "map_rows" => Len(blends) \in {Len(reads) - 1, Len(reads)}
        /\ (pc \in {"core_loop", "done"} /\ CoreOpa >= LV_OPA_MIN) =>
              /\ Len(blends) = Len(reads)
              /\ \A n \in 1 .. Len(blends) : blends[n].area.y1 = maps[n].area.y1
        /\ pc = "done" => /\ res = "OK"
                          /\ Len(reads) = lv_area_get_height(MaskCom.area)

C18_Witness ==
    /\ call.open = "stream"
    /\ ~ReadFailed
    /\ pc = "done"
    /\ res = "OK"
    /\ Len(reads) = MaxRows
    /\ reads[1].x = 1
    /\ Len(blends) = MaxRows
    /\ \E n \in 1 .. Len(blends) : ~blends[n].fast


(* C19: an accepted lv_img_buf_set_palette call (INDEXED_1/2/4/8BIT or
   ALPHA_1/2/4BIT, id below the palette size of the format) changes nothing
   but the four bytes of palette entry id: it writes inside the buffer, every
   other byte keeps its value, and lv_img_buf_get_px_color and
   lv_img_buf_get_px_alpha return for every pixel what they returned before. *)
C19_PaletteSetFrame ==
    (/\ setop.op = "set_palette"
     /\ ~setop.rej
     /\ dsc.cf \in IndexedFormats \cup {"ALPHA_1BIT", "ALPHA_2BIT", "ALPHA_4BIT"}
     /\ setop.x < PaletteSize(dsc.cf))
    => /\ ub = "none"
       /\ setop.acc \subseteq 0 .. (PaletteBytes(dsc.cf) - 1)
       /\ \A a \in DOMAIN pre :
             a \notin (4 * setop.x) .. ((4 * setop.x) + 3) => dsc.data[a] = pre[a]
       /\ \A x \in 0 .. (dsc.w - 1) : \A y \in 0 .. (dsc.h - 1) :
             /\ lv_img_buf_get_px_color(dsc, x, y, -1).val
                   = lv_img_buf_get_px_color(PreDsc, x, y, -1).val
             /\ lv_img_buf_get_px_alpha(dsc, x, y).val
                   = lv_img_buf_get_px_alpha(PreDsc, x, y).val

================================================================
